---- MODULE Spec2Model ----
(***************************************************************************)
(* Model of streamlit.py: the region resolver, the sido-count standardized *)
(* aggregation, the region boundary builder and the script's rerun cycle.  *)
(*                                                                         *)
(* Text is a sequence of one-character strings, so that str(), re.sub()    *)
(* and slicing are computed and not assumed.  Korean names are written     *)
(* syllable by syllable in romanized form.  A float is a pair <<n, d>>     *)
(* (the exact quotient n/d); NaN is <<0, 0>>.  A missing label (np.nan in  *)
(* an object column) is the string NULL.                                   *)
(***************************************************************************)
EXTENDS Integers, Sequences, FiniteSets, TLC

VARIABLES
    columns,        \* the columns of the loaded patient table: name -> dtype
    df,             \* the working frame: record kind -> number of rows
    labels,         \* df["권역"]: record kind -> region label or NULL
    batch,          \* history: the frame before line 483 drops rows
    raw_counts,     \* region -> count (line 536)
    std_counts,     \* region -> float (line 537)
    std_pct,        \* region -> float, rounded to 2 places (line 538)
    plot_df,        \* sequence of [region, value] rows (line 539)
    pc,             \* position in the script
    observed_codes,   \* the argument of pick_region_mapping
    mapping_used,   \* the code table picked (lines 140, 192), None before
    files,          \* the file system: path -> boundary file or Absent
    geo_path,       \* line 249
    gdf,            \* the boundary frame build_region_gdf works on
    coverage,       \* the coverage report (lines 209-216)
    cache,          \* st.cache_resource of build_region_gdf: path -> result
    geo_log,        \* history: what happened in the running build
    dataset,        \* the patient table as loaded (line 261)
    selected_bands, \* the age bands toggled on (lines 455-458)
    page            \* what the page shows: element -> rendered value

frameVars == <<columns, df, labels, batch>>

aggVars == <<raw_counts, std_counts, std_pct, plot_df>>

geoVars == <<mapping_used, files, geo_path, gdf, coverage, cache, geo_log>>

uiVars == <<dataset, selected_bands, page>>

vars == <<frameVars, aggVars, pc, observed_codes, geoVars, uiVars>>

-----------------------------------------------------------------------------
(* Bounds *)

\* largest number of rows of one record kind in a batch
MaxCount == 3

-----------------------------------------------------------------------------
(* Region tables, lines 105-113 *)

NULL == "NaN"

\* Python's None, and a path at which there is no file
None == <<>>

Absent == [absent |-> TRUE]

\* a Series, frame or dict with nothing in it
NoSeries == <<>>

R1 == "Seoul/Incheon"
R2 == "Gyeonggi/Gangwon"
R3 == "Chungcheong"
R4 == "Jeolla"
R5 == "Gyeongsang/Jeju"

REGION_MAP_1TO5 == [i \in 1..5 |-> <<R1, R2, R3, R4, R5>>[i]]

\* list(REGION_MAP_1TO5.values()): the fixed enumeration order
VALID_REGIONS == <<R1, R2, R3, R4, R5>>

RegionSet == {VALID_REGIONS[i] : i \in 1..Len(VALID_REGIONS)}

REGION_SIDO_N == (R1 :> 2) @@ (R2 :> 2) @@ (R3 :> 4) @@ (R4 :> 3) @@ (R5 :> 6)

-----------------------------------------------------------------------------
(* Floats as exact quotients *)

NaN == <<0, 0>>

Flt(n) == <<n, 1>>

IsNaN(x) == x[2] = 0

\* x / y; 0/0 and NaN operands give NaN (pandas float division)
FDiv(x, y) ==
    IF IsNaN(x) \/ IsNaN(y) \/ y[1] = 0 THEN NaN
    ELSE <<x[1] * y[2], x[2] * y[1]>>

FAdd(x, y) ==
    IF IsNaN(x) \/ IsNaN(y) THEN NaN
    ELSE <<x[1] * y[2] + y[1] * x[2], x[2] * y[2]>>

FMul(x, k) == IF IsNaN(x) THEN NaN ELSE <<x[1] * k, x[2]>>

\* Series.round(2): x*100 -> rint -> /100.  The result is kept as <<k, 100>>.
\* Where x*100 lies exactly halfway between two integers the binary float
\* the code holds is off the midpoint by its representation error, in either
\* direction, so both neighbours are possible outcomes.  NaN stays NaN.
Round2Outcomes(x) ==
    IF IsNaN(x) THEN {NaN}
    ELSE LET n == 100 * x[1]
             d == x[2]
             fl == n \div d
             rem == n - fl * d
         IN  IF 2 * rem < d THEN {<<fl, 100>>}
             ELSE IF 2 * rem > d THEN {<<fl + 1, 100>>}
             ELSE {<<fl, 100>>, <<fl + 1, 100>>}

-----------------------------------------------------------------------------
(* Text helpers *)

Digits == {"0", "1", "2", "3", "4", "5", "6", "7", "8", "9"}

DigitVal == ("0" :> 0) @@ ("1" :> 1) @@ ("2" :> 2) @@ ("3" :> 3) @@ ("4" :> 4)
            @@ ("5" :> 5) @@ ("6" :> 6) @@ ("7" :> 7) @@ ("8" :> 8) @@ ("9" :> 9)

\* re.sub(r"\D", "", s)
RECURSIVE OnlyDigits(_)
OnlyDigits(s) ==
    IF s = <<>> THEN <<>>
    ELSE IF Head(s) \in Digits THEN <<Head(s)>> \o OnlyDigits(Tail(s))
    ELSE OnlyDigits(Tail(s))

\* the number an integer literal denotes
RECURSIVE NumVal(_)
NumVal(s) == IF s = <<>> THEN 0 ELSE NumVal(SubSeq(s, 1, Len(s) - 1)) * 10 + DigitVal[s[Len(s)]]

\* s.zfill(2)
Zfill2(s) == IF Len(s) = 0 THEN <<"0", "0">> ELSE IF Len(s) = 1 THEN <<"0">> \o s ELSE s

\* lines 50-52
first2digits(x) ==
    LET s == OnlyDigits(x)
    IN  IF Len(s) >= 2 THEN SubSeq(s, 1, 2) ELSE Zfill2(s)

\* str() of one cell of a numeric column read by pd.read_csv: an int64 column
\* prints the integer, a float64 column (one that has missing cells) prints
\* "<n>.0" and "nan"
NumCellStr(cell, dtype) ==
    IF cell = <<>> THEN <<"n", "a", "n">>
    ELSE IF dtype = "float64" THEN cell \o <<".", "0">>
    ELSE cell

-----------------------------------------------------------------------------
(* Code tables, lines 62-81 *)

CODE_TO_REGION_A ==
    (<<"1", "1">> :> R1) @@ (<<"2", "3">> :> R1) @@
    (<<"3", "1">> :> R2) @@ (<<"3", "2">> :> R2) @@
    (<<"3", "3">> :> R3) @@ (<<"3", "4">> :> R3) @@
    (<<"2", "5">> :> R3) @@ (<<"2", "9">> :> R3) @@
    (<<"3", "5">> :> R4) @@ (<<"3", "6">> :> R4) @@ (<<"2", "4">> :> R4) @@
    (<<"2", "1">> :> R5) @@ (<<"2", "2">> :> R5) @@
    (<<"2", "6">> :> R5) @@ (<<"3", "7">> :> R5) @@
    (<<"3", "8">> :> R5) @@ (<<"3", "9">> :> R5)

CODE_TO_REGION_B ==
    (<<"1", "1">> :> R1) @@ (<<"2", "8">> :> R1) @@
    (<<"4", "1">> :> R2) @@ (<<"4", "2">> :> R2) @@
    (<<"4", "3">> :> R3) @@ (<<"4", "4">> :> R3) @@
    (<<"3", "6">> :> R3) @@ (<<"3", "0">> :> R3) @@
    (<<"4", "5">> :> R4) @@ (<<"4", "6">> :> R4) @@ (<<"2", "9">> :> R4) @@
    (<<"4", "7">> :> R5) @@ (<<"4", "8">> :> R5) @@
    (<<"2", "6">> :> R5) @@ (<<"2", "7">> :> R5) @@
    (<<"3", "1">> :> R5) @@ (<<"5", "0">> :> R5)

\* variant: a tie goes to table A
pick_region_mapping_ge(codes_2digit) ==
    LET a_hits == Cardinality(DOMAIN CODE_TO_REGION_A \cap codes_2digit)
        b_hits == Cardinality(DOMAIN CODE_TO_REGION_B \cap codes_2digit)
    IN  IF a_hits >= b_hits THEN CODE_TO_REGION_A ELSE CODE_TO_REGION_B

\* lines 115-118
pick_region_mapping(codes_2digit) ==
    LET a_hits == Cardinality(DOMAIN CODE_TO_REGION_A \cap codes_2digit)
        b_hits == Cardinality(DOMAIN CODE_TO_REGION_B \cap codes_2digit)
    IN  IF a_hits > b_hits THEN CODE_TO_REGION_A ELSE CODE_TO_REGION_B

\* Series.map(dict): the value for a key of the dict, NaN for any other
MapDict(dict, key) == IF key \in DOMAIN dict THEN dict[key] ELSE NULL

-----------------------------------------------------------------------------
(* Name tables, lines 82-103, and norm_nm, lines 55-59 *)

SEOUL == <<"seo", "ul">>
INCHEON == <<"in", "cheon">>
GYEONGGI == <<"gyeong", "gi">>
GANGWON == <<"gang", "won">>
SEJONG == <<"se", "jong">>
DAEJEON == <<"dae", "jeon">>
GWANGJU == <<"gwang", "ju">>
BUSAN == <<"bu", "san">>
DAEGU == <<"dae", "gu">>
ULSAN == <<"ul", "san">>
JEJU == <<"je", "ju">>

TEUKBYEOLSI == <<"teuk", "byeol", "si">>
GWANGYEOKSI == <<"gwang", "yeok", "si">>
TEUKBYEOLJACHIDO == <<"teuk", "byeol", "ja", "chi", "do">>
TEUKBYEOLJACHISI == <<"teuk", "byeol", "ja", "chi", "si">>
JACHIDO == <<"ja", "chi", "do">>
DO == <<"do">>
SI == <<"si">>

NAME_TO_REGION ==
    (SEOUL \o TEUKBYEOLSI :> R1) @@ (INCHEON \o GWANGYEOKSI :> R1) @@
    (GYEONGGI \o DO :> R2) @@ (GANGWON \o TEUKBYEOLJACHIDO :> R2) @@ (GANGWON \o DO :> R2) @@
    (<<"chung", "cheong", "buk", "do">> :> R3) @@ (<<"chung", "cheong", "nam", "do">> :> R3) @@
    (SEJONG \o TEUKBYEOLJACHISI :> R3) @@ (DAEJEON \o GWANGYEOKSI :> R3) @@
    (<<"jeon", "buk">> \o TEUKBYEOLJACHIDO :> R4) @@ (<<"jeon", "ra", "buk", "do">> :> R4) @@
    (<<"jeon", "ra", "nam", "do">> :> R4) @@ (GWANGJU \o GWANGYEOKSI :> R4) @@
    (<<"gyeong", "sang", "buk", "do">> :> R5) @@ (<<"gyeong", "sang", "nam", "do">> :> R5) @@
    (BUSAN \o GWANGYEOKSI :> R5) @@ (DAEGU \o GWANGYEOKSI :> R5) @@
    (ULSAN \o GWANGYEOKSI :> R5) @@ (JEJU \o TEUKBYEOLJACHIDO :> R5)

NORMNAME_TO_REGION ==
    (SEOUL :> R1) @@ (INCHEON :> R1) @@
    (GYEONGGI :> R2) @@ (GANGWON :> R2) @@
    (<<"chung", "buk">> :> R3) @@ (<<"chung", "nam">> :> R3) @@
    (SEJONG :> R3) @@ (DAEJEON :> R3) @@
    (<<"jeon", "buk">> :> R4) @@ (<<"jeon", "nam">> :> R4) @@ (GWANGJU :> R4) @@
    (<<"gyeong", "buk">> :> R5) @@ (<<"gyeong", "nam">> :> R5) @@
    (BUSAN :> R5) @@ (DAEGU :> R5) @@
    (ULSAN :> R5) @@ (JEJU :> R5)

\* s.replace(t, ''): every non-overlapping occurrence of t, left to right
RECURSIVE RemoveAll(_, _)
RemoveAll(s, t) ==
    IF Len(s) < Len(t) THEN s
    ELSE IF SubSeq(s, 1, Len(t)) = t THEN RemoveAll(SubSeq(s, Len(t) + 1, Len(s)), t)
    ELSE <<Head(s)>> \o RemoveAll(Tail(s), t)

\* the suffix tokens of line 57, in the order the loop takes them
NormTokens == <<TEUKBYEOLJACHIDO, TEUKBYEOLJACHISI, TEUKBYEOLSI, GWANGYEOKSI, JACHIDO, DO, SI>>

RECURSIVE StripTokens(_, _)
StripTokens(s, i) ==
    IF i > Len(NormTokens) THEN s ELSE StripTokens(RemoveAll(s, NormTokens[i]), i + 1)

\* lines 55-59; " " is the whitespace character
norm_nm(s) == StripTokens(RemoveAll(s, <<" ">>), 1)

\* str() of one cell of a text column: the text, "nan" for a missing cell
TextCellStr(cell) == IF cell = <<>> THEN <<"n", "a", "n">> ELSE cell

-----------------------------------------------------------------------------
(* Frames: a frame is a function from record kinds to row counts *)

RECURSIVE SumOver(_, _)
SumOver(S, f) ==
    IF S = {} THEN 0
    ELSE LET k == CHOOSE x \in S : TRUE IN f[k] + SumOver(S \ {k}, f)

\* len(df)
NRows(d) == SumOver(DOMAIN d, d)

\* the record kinds that have rows
Present(d) == {k \in DOMAIN d : d[k] > 0}

\* mapped.notna().sum() for a per-kind label function
NotNaCount(d, m) == SumOver({k \in DOMAIN d : m[k] # NULL}, d)

\* mapped.notna().mean() >= num/10; the mean of an empty Series is NaN and
\* every comparison with NaN is False
MeanAtLeast(d, m, num) == NRows(d) > 0 /\ 10 * NotNaCount(d, m) >= num * NRows(d)

-----------------------------------------------------------------------------
(* robust_region_from_records, lines 120-155.                               *)
(* cols: column name -> dtype.  "loc" is 요양기관소재지, "sido" is 시도.    *)
(* Of the code columns of line 136 and the name columns of line 146 only   *)
(* these two are modelled.                                                 *)

\* line 129-131: to_numeric, then map through the 1..5 table
Step1Map(k) ==
    IF k.loc # <<>> /\ NumVal(k.loc) \in DOMAIN REGION_MAP_1TO5
    THEN REGION_MAP_1TO5[NumVal(k.loc)] ELSE NULL

\* line 139
Step2Two(cols, k) == first2digits(NumCellStr(k.loc, cols["loc"]))

\* lines 149, 152
Step3Direct(k) == MapDict(NAME_TO_REGION, TextCellStr(k.sido))

Step3Norm(k) == MapDict(NORMNAME_TO_REGION, norm_nm(TextCellStr(k.sido)))

Step1Accepts(cols, d) ==
    /\ "loc" \in DOMAIN cols
    /\ \E k \in Present(d) : k.loc # <<>>
    /\ MeanAtLeast(d, [k \in DOMAIN d |-> Step1Map(k)], 8)

Step2Mapping(cols, d) == pick_region_mapping({Step2Two(cols, k) : k \in Present(d)})

Step2Accepts(cols, d) ==
    /\ "loc" \in DOMAIN cols
    /\ MeanAtLeast(d, [k \in DOMAIN d |-> MapDict(Step2Mapping(cols, d), Step2Two(cols, k))], 6)

robust_region_from_records(cols, d) ==
    IF Step1Accepts(cols, d) THEN [k \in DOMAIN d |-> Step1Map(k)]
    ELSE IF Step2Accepts(cols, d)
    THEN [k \in DOMAIN d |-> MapDict(Step2Mapping(cols, d), Step2Two(cols, k))]
    ELSE IF "sido" \in DOMAIN cols
    THEN IF \E k \in Present(d) : Step3Direct(k) # NULL
         THEN [k \in DOMAIN d |-> Step3Direct(k)]
         ELSE [k \in DOMAIN d |-> Step3Norm(k)]
    ELSE [k \in DOMAIN d |-> NULL]

-----------------------------------------------------------------------------
(* Series helpers.  A Series is a function from its index to its values;   *)
(* the index of every Series below is kept in VALID_REGIONS order.         *)

\* Series.value_counts(): one entry for each non-null value that occurs
value_counts(d, m) ==
    [v \in {m[k] : k \in Present(d)} \ {NULL} |-> SumOver({k \in DOMAIN d : m[k] = v}, d)]

\* Series.reindex(index, fill_value=fill)
reindex(s, index, fill) ==
    [r \in {index[i] : i \in 1..Len(index)} |-> IF r \in DOMAIN s THEN s[r] ELSE fill]

\* a.astype(float).div(pd.Series(b)): aligned on the union of the two
\* indexes, NaN where either side has no entry
SeriesDiv(a, b) ==
    [r \in DOMAIN a \cup DOMAIN b |->
        IF r \in DOMAIN a /\ r \in DOMAIN b THEN FDiv(Flt(a[r]), Flt(b[r])) ELSE NaN]

IndexOrder(s) == SelectSeq(VALID_REGIONS, LAMBDA r : r \in DOMAIN s)

\* Series.sum(): NaN entries are skipped, the rest added in index order
RECURSIVE SumSeq(_, _)
SumSeq(s, order) ==
    IF order = <<>> THEN Flt(0)
    ELSE LET rest == SumSeq(s, SubSeq(order, 1, Len(order) - 1))
             x == s[order[Len(order)]]
         IN  IF IsNaN(x) THEN rest ELSE FAdd(rest, x)

SeriesSum(s) == SumSeq(s, IndexOrder(s))

\* sc / total * 100
Pct(sc, total) == [r \in DOMAIN sc |-> FMul(FDiv(sc[r], total), 100)]

\* the entries whose rounding has two possible outcomes
TieIndex(q) == {r \in DOMAIN q : Cardinality(Round2Outcomes(q[r])) = 2}

\* .round(2) with the entries in `up` taking the upper neighbour
RoundSeries(q, up) ==
    [r \in DOMAIN q |->
        LET out == Round2Outcomes(q[r])
        IN  IF Cardinality(out) = 1 THEN CHOOSE x \in out : TRUE
            ELSE IF r \in up THEN CHOOSE x \in out : \A y \in out : y[1] <= x[1]
            ELSE CHOOSE x \in out : \A y \in out : x[1] <= y[1]]

\* a < b for two floats of positive denominator
FLess(a, b) == a[1] * b[2] < b[1] * a[2]

\* lines 30-37 followed by sort_values(ascending=False): one row per index
\* entry; descending by value, NaN rows last, equal values in index order
series_to_df(s) ==
    LET order == IndexOrder(s)
        Before(i, j) ==
            \/ ~IsNaN(s[order[i]]) /\ IsNaN(s[order[j]])
            \/ ~IsNaN(s[order[i]]) /\ ~IsNaN(s[order[j]]) /\ FLess(s[order[j]], s[order[i]])
            \/ /\ IsNaN(s[order[i]]) = IsNaN(s[order[j]])
               /\ ~FLess(s[order[j]], s[order[i]]) /\ ~FLess(s[order[i]], s[order[j]])
               /\ i < j
        Rank(i) == 1 + Cardinality({j \in 1..Len(order) : Before(j, i)})
    IN  [p \in 1..Len(order) |->
            LET i == CHOOSE i \in 1..Len(order) : Rank(i) = p
            IN  [region |-> order[i], value |-> s[order[i]]]]

-----------------------------------------------------------------------------
(* The script, top to bottom.  pc names the statement about to run.        *)

\* line 468: df["권역"] = robust_region_from_records(df)
Resolve ==
    /\ pc = "resolve"
    /\ labels' = robust_region_from_records(columns, df)
    /\ pc' = "filter"
    /\ UNCHANGED <<columns, df, batch, aggVars, observed_codes, geoVars, uiVars>>

\* variant: no row is dropped
KeepAll(d, m) == d

\* df[df["권역"].isin(VALID_REGIONS)]
KeepValid(d, m) == [k \in DOMAIN d |-> IF m[k] \in RegionSet THEN d[k] ELSE 0]

\* line 483
FilterValid ==
    /\ pc = "filter"
    /\ df' = KeepValid(df, labels)
    /\ pc' = "aggregate"
    /\ UNCHANGED <<columns, labels, batch, aggVars, observed_codes, geoVars, uiVars>>

\* variant: the counts are not reindexed
RawCountsNoReindex(d, m) == value_counts(d, m)

\* line 536
RawCounts(d, m) == reindex(value_counts(d, m), VALID_REGIONS, 0)

\* variant: the counts are not divided
StdCountsUndivided(rc) == [r \in DOMAIN rc |-> Flt(rc[r])]

\* line 537
StdCounts(rc) == SeriesDiv(rc, REGION_SIDO_N)

\* variant: the shares are left as fractions of 1
StdPctFraction(sc) == [r \in DOMAIN sc |-> FDiv(sc[r], SeriesSum(sc))]

\* std_counts / std_counts.sum() * 100, before rounding (line 538)
StdPctExact(sc) == Pct(sc, SeriesSum(sc))

\* lines 536-539
Aggregate ==
    /\ pc = "aggregate"
    /\ LET rc == RawCounts(df, labels)
           sc == StdCounts(rc)
           q == StdPctExact(sc)
       IN  \E up \in SUBSET TieIndex(q) :
              /\ raw_counts' = rc
              /\ std_counts' = sc
              /\ std_pct' = RoundSeries(q, up)
              /\ plot_df' = series_to_df(RoundSeries(q, up))
    /\ pc' = "bar"
    /\ UNCHANGED <<frameVars, observed_codes, geoVars, uiVars>>

-----------------------------------------------------------------------------
(* SpecAgg: one pass of the script over every batch of a 요양기관소재지     *)
(* table, up to the standardized region table.                             *)

\* the variables a specification does not use
IdlePick == observed_codes = {}

IdleGeo ==
    /\ mapping_used = None
    /\ files = <<>>
    /\ geo_path = None
    /\ gdf = None
    /\ coverage = None
    /\ cache = <<>>
    /\ geo_log = {}

IdleUi ==
    /\ dataset = <<>>
    /\ selected_bands = {}
    /\ page = <<>>

\* the cells of the region-indicator column: 1..5, a two-digit code, empty
LocCells == {<<"1">>, <<"2">>, <<"3">>, <<"4">>, <<"5">>, <<"4", "1">>, <<>>}

LocKinds == {[loc |-> c] : c \in LocCells}

\* read_csv gives the column float64 when the file has an empty cell in it,
\* int64 when it has none; a batch is any selection of the file's rows
InitAgg ==
    /\ columns \in {[c \in {"loc"} |-> t] : t \in {"int64", "float64"}}
    /\ df \in [LocKinds -> 0..MaxCount]
    /\ columns["loc"] = "int64" => df[[loc |-> <<>>]] = 0
    /\ batch = df
    /\ labels = NoSeries
    /\ raw_counts = NoSeries
    /\ std_counts = NoSeries
    /\ std_pct = NoSeries
    /\ plot_df = NoSeries
    /\ pc = "resolve"
    /\ IdlePick
    /\ IdleGeo
    /\ IdleUi

NextAgg == Resolve \/ FilterValid \/ Aggregate

SpecAgg == InitAgg /\ [][NextAgg]_vars

-----------------------------------------------------------------------------
(* SpecPick: pick_region_mapping applied to every set of observed codes    *)

\* how many codes of PickCodeList a code set is drawn from
NCodes == 13

\* two-digit codes: three that both tables have, seven that only table A
\* has, two that only table B has, one that neither has, then more of each
PickCodeList ==
    << <<"1", "1">>, <<"3", "1">>, <<"3", "6">>,
       <<"2", "3">>, <<"3", "2">>, <<"3", "3">>, <<"3", "4">>, <<"2", "5">>,
       <<"3", "5">>, <<"2", "4">>,
       <<"2", "8">>, <<"4", "1">>,
       <<"0", "0">>,
       <<"4", "2">>, <<"2", "1">>, <<"9", "9">> >>

IdleFrame ==
    /\ columns = NoSeries
    /\ df = NoSeries
    /\ labels = NoSeries
    /\ batch = NoSeries

IdleAgg ==
    /\ raw_counts = NoSeries
    /\ std_counts = NoSeries
    /\ std_pct = NoSeries
    /\ plot_df = NoSeries

InitPick ==
    /\ observed_codes \in SUBSET {PickCodeList[i] : i \in 1..NCodes}
    /\ pc = "pick"
    /\ IdleFrame
    /\ IdleAgg
    /\ IdleGeo
    /\ IdleUi

\* the call of line 140 or 192
PickMapping ==
    /\ pc = "pick"
    /\ mapping_used' = pick_region_mapping(observed_codes)
    /\ pc' = "picked"
    /\ UNCHANGED <<frameVars, aggVars, observed_codes, files, geo_path, gdf, coverage,
                   cache, geo_log, uiVars>>

NextPick == PickMapping

SpecPick == InitPick /\ [][NextPick]_vars

-----------------------------------------------------------------------------
(* build_region_gdf, lines 157-239.                                         *)
(*                                                                         *)
(* A boundary file is [features, crs, frame, cols]: the ids of its         *)
(* features, the reference system it declares ("none" when it declares     *)
(* none), the system its coordinates are really in ("projected": metres of *)
(* EPSG:5179, "lonlat": degrees), and its property columns.  A geometry is *)
(* a set of polygons and a polygon a set of cells of the plane.            *)

\* the polygons of a geometry as one set of cells
Cover(geom) == UNION geom

\* str() of a property of a feature: the text, "None" for a null property
GeoCellStr(cell) == IF cell = <<>> THEN <<"N", "o", "n", "e">> ELSE cell

\* the features boundary files are made of: code (CTPRVN_CD), name
\* (CTP_KOR_NM), geometry and whether the geometry is valid as stored
GeoFeatureList ==
    << [code |-> <<"1", "1">>, name |-> SEOUL \o TEUKBYEOLSI, geom |-> {{1}}, valid |-> TRUE],
       [code |-> <<"2", "8">>, name |-> INCHEON \o GWANGYEOKSI, geom |-> {{2}, {3}}, valid |-> TRUE],
       [code |-> <<"4", "1">>, name |-> GYEONGGI \o DO, geom |-> {{4}}, valid |-> FALSE],
       [code |-> <<"9", "9">>, name |-> GANGWON \o DO, geom |-> {{5}}, valid |-> TRUE],
       [code |-> <<"3", "1">>, name |-> ULSAN \o GWANGYEOKSI, geom |-> {{6}}, valid |-> TRUE],
       [code |-> <<>>, name |-> <<"f", "o", "o">>, geom |-> {{7}}, valid |-> TRUE],
       [code |-> <<"2", "3">>, name |-> INCHEON, geom |-> {{8}}, valid |-> TRUE],
       [code |-> <<"3", "2">>, name |-> GANGWON \o TEUKBYEOLJACHIDO, geom |-> {{9}, {10}}, valid |-> TRUE] >>

\* how many features of GeoFeatureList a boundary file is drawn from
NFeatures == 7

\* how many files of AppFileList a path of SpecApp can hold, and the largest
\* number of rows of one record kind in its patient table
NAppFiles == 2

MaxAppCount == 1

BothCols == {"CTPRVN_CD", "CTP_KOR_NM"}

\* declared reference system and real coordinate system of a file
CrsFrames ==
    { <<"none", "projected">>, <<"none", "lonlat">>,
      <<"EPSG:5179", "projected">>, <<"EPSG:4326", "lonlat">> }

GeoFiles(nfeat, colsets) ==
    { [features |-> fs, crs |-> cf[1], frame |-> cf[2], cols |-> cs] :
        fs \in SUBSET (1..nfeat), cf \in CrsFrames, cs \in colsets }

\* a step of the build raises: nothing is returned and nothing is cached;
\* the caller's handler is where the script goes on
Raise(what, handler) ==
    /\ geo_log' = geo_log \cup {what}
    /\ gdf' = None
    /\ mapping_used' = None
    /\ coverage' = None
    /\ pc' = handler
    /\ UNCHANGED <<files, geo_path, cache>>

\* variant: no handler, the exception ends the script
MapHandlerNone == "abort"

\* the try block of lines 563-588 encloses the call of line 564
MapHandler == "map_except"

\* line 159: gpd.read_file; a missing or unreadable file raises
GeoRead ==
    /\ pc = "geo_read"
    /\ \/ /\ geo_path \in DOMAIN files
          /\ files[geo_path] # Absent
          /\ gdf' = [rows |-> {[fid |-> f,
                                code |-> GeoFeatureList[f].code,
                                name |-> GeoFeatureList[f].name,
                                geom |-> GeoFeatureList[f].geom,
                                valid |-> GeoFeatureList[f].valid] : f \in files[geo_path].features},
                     crs |-> files[geo_path].crs,
                     frame |-> files[geo_path].frame,
                     cols |-> files[geo_path].cols]
          /\ geo_log' = geo_log
          /\ pc' = "geo_crs"
          /\ UNCHANGED <<mapping_used, files, geo_path, coverage, cache>>
       \/ Raise("read_failed", MapHandler)
    /\ UNCHANGED <<frameVars, aggVars, observed_codes, uiVars>>

\* line 165: the largest absolute bound exceeds 200 (metres, not degrees);
\* the bounds of a frame without rows are NaN and the test is False
LooksProjected(g) == g.rows # {} /\ g.frame = "projected"

\* lines 162-172: to_crs(epsg=4326) may raise where a transformation is
\* needed; the except clause of lines 171-172 passes, gdf was not reassigned
\* and the function goes on with the frame as read
GeoCrs ==
    /\ pc = "geo_crs"
    /\ \/ /\ gdf.crs = "none" /\ ~LooksProjected(gdf)
          /\ gdf' = [gdf EXCEPT !.crs = "EPSG:4326"]
          /\ geo_log' = geo_log
       \/ /\ gdf.crs = "EPSG:4326"
          /\ gdf' = gdf
          /\ geo_log' = geo_log
       \/ /\ \/ gdf.crs = "none" /\ LooksProjected(gdf)
             \/ gdf.crs \notin {"none", "EPSG:4326"}
          /\ \/ /\ gdf' = [gdf EXCEPT !.crs = "EPSG:4326", !.frame = "lonlat"]
                /\ geo_log' = geo_log
             \/ /\ gdf' = gdf
                /\ geo_log' = geo_log \cup {"reproject_failed"}
    /\ pc' = "geo_valid"
    /\ UNCHANGED <<frameVars, aggVars, observed_codes, uiVars,
                   mapping_used, files, geo_path, coverage, cache>>

\* lines 175-179: make_valid on every geometry; if that raises, buffer(0) on
\* the whole frame; if that raises too, the exception leaves the function
GeoValid ==
    /\ pc = "geo_valid"
    /\ \/ /\ gdf' = [gdf EXCEPT !.rows = {[r EXCEPT !.valid = TRUE] : r \in gdf.rows}]
          /\ pc' = "geo_explode"
          /\ UNCHANGED <<mapping_used, files, geo_path, coverage, cache, geo_log>>
       \/ Raise("buffer_failed", MapHandler)
    /\ UNCHANGED <<frameVars, aggVars, observed_codes, uiVars>>

\* lines 182-185: one row for each polygon of each geometry
GeoExplode ==
    /\ pc = "geo_explode"
    /\ gdf' = [gdf EXCEPT !.rows = UNION {{[r EXCEPT !.geom = {p}] : p \in r.geom} : r \in gdf.rows}]
    /\ pc' = "geo_tag"
    /\ UNCHANGED <<frameVars, aggVars, observed_codes, uiVars,
                   mapping_used, files, geo_path, coverage, cache, geo_log>>

\* lines 191-193: the region of a row by its code, with the table picked
\* over the codes of the whole frame
CodeRegion(g, r) ==
    MapDict(pick_region_mapping({first2digits(GeoCellStr(x.code)) : x \in g.rows}),
            first2digits(GeoCellStr(r.code)))

\* lines 198-201: name_map1.fillna(name_map2)
NameRegion(r) ==
    IF MapDict(NAME_TO_REGION, GeoCellStr(r.name)) # NULL
    THEN MapDict(NAME_TO_REGION, GeoCellStr(r.name))
    ELSE MapDict(NORMNAME_TO_REGION, norm_nm(GeoCellStr(r.name)))

\* variant: the name's region where there is one, else the code's
FinalRegionNameFirst(by_code, by_name) == IF by_name # NULL THEN by_name ELSE by_code

\* lines 204-205: the code's region where there is one, else the name's
FinalRegion(by_code, by_name) == IF by_code # NULL THEN by_code ELSE by_name

\* lines 187-205
GeoTag ==
    /\ pc = "geo_tag"
    /\ mapping_used' =
          IF "CTPRVN_CD" \in gdf.cols
          THEN pick_region_mapping({first2digits(GeoCellStr(x.code)) : x \in gdf.rows})
          ELSE None
    /\ gdf' = [gdf EXCEPT !.rows =
          {[fid |-> r.fid, code |-> r.code, name |-> r.name, geom |-> r.geom, valid |-> r.valid,
            region_code |-> IF "CTPRVN_CD" \in gdf.cols THEN CodeRegion(gdf, r) ELSE NULL,
            region_name |-> IF "CTP_KOR_NM" \in gdf.cols THEN NameRegion(r) ELSE NULL,
            region |-> FinalRegion(IF "CTPRVN_CD" \in gdf.cols THEN CodeRegion(gdf, r) ELSE NULL,
                                   IF "CTP_KOR_NM" \in gdf.cols THEN NameRegion(r) ELSE NULL)]
           : r \in gdf.rows}]
    /\ pc' = "geo_coverage"
    /\ UNCHANGED <<frameVars, aggVars, observed_codes, uiVars,
                   files, geo_path, coverage, cache, geo_log>>

\* round(x, 1) of a float; both neighbours where x*10 is exactly halfway
Round1Outcomes(x) ==
    IF IsNaN(x) THEN {NaN}
    ELSE LET n == 10 * x[1]
             d == x[2]
             fl == n \div d
             rem == n - fl * d
         IN  IF 2 * rem < d THEN {<<fl, 10>>}
             ELSE IF 2 * rem > d THEN {<<fl + 1, 10>>}
             ELSE {<<fl, 10>>, <<fl + 1, 10>>}

\* gdf[col].notna().mean() * 100 over the rows
NotNaPct(rows, col) ==
    FMul(FDiv(Flt(Cardinality({r \in rows : r[col] # NULL})), Flt(Cardinality(rows))), 100)

\* lines 207-216; line 208 selects both property columns and raises KeyError
\* when the file lacks one.  The area figures of lines 218-227 are left out:
\* they change nothing and every failure in them is swallowed.
GeoCoverage ==
    /\ pc = "geo_coverage"
    /\ \/ /\ BothCols \subseteq gdf.cols
          /\ \E c1 \in Round1Outcomes(NotNaPct(gdf.rows, "region_code")),
                c2 \in Round1Outcomes(NotNaPct(gdf.rows, "region_name")),
                c3 \in Round1Outcomes(NotNaPct(gdf.rows, "region")) :
                coverage' =
                    [total |-> Cardinality({<<r.code, r.name>> : r \in gdf.rows}),
                     code_pct |-> c1,
                     name_pct |-> c2,
                     final_pct |-> c3,
                     unmapped |-> {<<r.code, r.name>> : r \in {x \in gdf.rows : x.region = NULL}},
                     mapping |-> IF mapping_used = CODE_TO_REGION_A THEN "A" ELSE "B"]
          /\ pc' = "geo_dissolve"
          /\ UNCHANGED <<mapping_used, files, geo_path, gdf, cache, geo_log>>
       \/ /\ ~(BothCols \subseteq gdf.cols)
          /\ Raise("key_error", MapHandler)
    /\ UNCHANGED <<frameVars, aggVars, observed_codes, uiVars>>

\* variant: rows of one region are not merged
DissolveFirstOnly(rows) ==
    {[region |-> reg,
      geometry |-> Cover((CHOOSE r \in rows : r.region = reg).geom)]
        : reg \in {r.region : r \in rows} \ {NULL}}

\* line 230: dropna(subset=["권역"]).dissolve(by="권역"): one row for each
\* region that tags a row, its geometry the union of the tagged geometries
Dissolve(rows) ==
    {[region |-> reg, geometry |-> UNION {Cover(r.geom) : r \in {x \in rows : x.region = reg}}]
        : reg \in {r.region : r \in rows} \ {NULL}}

\* lines 229-239; the buffer(0) of lines 234-237 leaves the area covered as
\* it is and a failure of it is swallowed.  The value returned is what
\* st.cache_resource keeps for the path (line 157), and the locals of the
\* function are gone.  tagged and src are history: the tagged rows the
\* boundaries were dissolved from and the file they were read from.
GeoDissolve ==
    /\ pc = "geo_dissolve"
    /\ cache' = [p \in DOMAIN cache \cup {geo_path} |->
                    IF p = geo_path
                    THEN [region_gdf |-> Dissolve(gdf.rows),
                          crs |-> gdf.crs,
                          frame |-> gdf.frame,
                          mapping_used |-> mapping_used,
                          coverage |-> coverage,
                          tagged |-> gdf.rows,
                          src |-> files[geo_path]]
                    ELSE cache[p]]
    /\ gdf' = None
    /\ mapping_used' = None
    /\ coverage' = None
    /\ pc' = "map_merge"
    /\ UNCHANGED <<frameVars, aggVars, observed_codes, uiVars, files, geo_path, geo_log>>

-----------------------------------------------------------------------------
(* SpecGeo: build_region_gdf applied to every boundary file                *)

GeoPath == "TL_SCCO_CTPRVN.json"

InitGeo ==
    /\ \E f \in GeoFiles(NFeatures, {BothCols, {"CTPRVN_CD"}, {"CTP_KOR_NM"}}) \cup {Absent} :
          files = [p \in {GeoPath} |-> f]
    /\ geo_path = GeoPath
    /\ mapping_used = None
    /\ gdf = None
    /\ coverage = None
    /\ cache = <<>>
    /\ geo_log = {}
    /\ pc = "geo_read"
    /\ IdleFrame
    /\ IdleAgg
    /\ IdlePick
    /\ IdleUi

NextGeo == GeoRead \/ GeoCrs \/ GeoValid \/ GeoExplode \/ GeoTag \/ GeoCoverage \/ GeoDissolve

SpecGeo == InitGeo /\ [][NextGeo]_vars

-----------------------------------------------------------------------------
(* The rest of the script: what a rerun does before line 468 and after     *)
(* line 539.  Of the sidebar only the age-band filter is modelled: the     *)
(* patient table stands for the rows the disease filter selected.  The     *)
(* facility-type section (lines 488-529) renders its own chart and reads   *)
(* and writes nothing the later sections use; it is left out.              *)

\* lines 248-249, with the first two candidates
GEO_CANDIDATES == <<"/mnt/data/TL_SCCO_CTPRVN.json", "TL_SCCO_CTPRVN.json">>

\* next((p for p in GEO_CANDIDATES if Path(p).exists()), GEO_CANDIDATES[0])
FirstExisting(fs) ==
    IF \E i \in 1..Len(GEO_CANDIDATES) : fs[GEO_CANDIDATES[i]] # Absent
    THEN GEO_CANDIDATES[CHOOSE i \in 1..Len(GEO_CANDIDATES) :
            /\ fs[GEO_CANDIDATES[i]] # Absent
            /\ \A j \in 1..(i - 1) : fs[GEO_CANDIDATES[j]] = Absent]
    ELSE GEO_CANDIDATES[1]

\* read_csv: a numeric column with an empty cell comes out float64
ColumnDtype(d, col) == IF \E k \in Present(d) : k[col] = <<>> THEN "float64" ELSE "int64"

\* lines 446-451: the labels of the age bands, by their lower ends; every
\* row of the tables modelled has an age
MaxOf(S) == CHOOSE x \in S : \A y \in S : y <= x

AgeLabels(d) ==
    IF Present(d) = {} THEN {}
    ELSE LET max_age == MaxOf({NumVal(k.age) : k \in Present(d)})
             ceil10 == ((max_age + 9) \div 10) * 10
             max_bin == IF ceil10 < 10 THEN 10 ELSE ceil10
         IN  {b \in 0..(max_bin - 10) : b % 10 = 0}

\* line 452: pd.cut(..., right=False)
AgeBand(k) == (NumVal(k.age) \div 10) * 10

\* lines 455-460: no band toggled on keeps every row
AgeFilter(d, bands) ==
    IF bands = {} THEN d
    ELSE [k \in DOMAIN d |-> IF AgeBand(k) \in bands THEN d[k] ELSE 0]

\* a rerun of the script from its top down to line 462, started by a widget
\* change; the page is drawn anew
Rerun ==
    /\ pc = "idle"
    /\ \E sel \in SUBSET AgeLabels(dataset) :
          /\ selected_bands' = sel
          /\ df' = AgeFilter(dataset, sel)
          /\ batch' = AgeFilter(dataset, sel)
    /\ columns' = [c \in {"loc", "sex", "age"} |-> ColumnDtype(dataset, c)]
    /\ labels' = NoSeries
    /\ raw_counts' = NoSeries
    /\ std_counts' = NoSeries
    /\ std_pct' = NoSeries
    /\ plot_df' = NoSeries
    /\ geo_path' = FirstExisting(files)
    /\ geo_log' = {}
    /\ page' = <<>>
    /\ pc' = "resolve"
    /\ UNCHANGED <<observed_codes, mapping_used, files, gdf, coverage, cache, dataset>>

\* lines 541-560
BarChart ==
    /\ pc = "bar"
    /\ page' = ("bar" :> plot_df) @@ page
    /\ pc' = "map"
    /\ UNCHANGED <<frameVars, aggVars, observed_codes, geoVars, dataset, selected_bands>>

\* line 564 under @st.cache_resource (line 157): a value kept for the path
\* is returned as it is, otherwise the function body runs
MapCall ==
    /\ pc = "map"
    /\ pc' = IF geo_path \in DOMAIN cache THEN "map_merge" ELSE "geo_read"
    /\ UNCHANGED <<frameVars, aggVars, observed_codes, geoVars, uiVars>>

\* lines 565-568: the boundaries joined with the percentages, a boundary
\* without a percentage row getting 0.  (A NaN percentage is not filled.)
MapDf(region_gdf, pdf) ==
    {[region |-> b.region, geometry |-> b.geometry,
      value |-> IF \E i \in 1..Len(pdf) : pdf[i].region = b.region
                THEN pdf[CHOOSE i \in 1..Len(pdf) : pdf[i].region = b.region].value
                ELSE <<0, 100>>] : b \in region_gdf}

\* lines 565-586: the choropleth; drawing it may raise
MapMerge ==
    /\ pc = "map_merge"
    /\ \/ /\ page' = ("map" :> [ok |-> TRUE,
                                rows |-> MapDf(cache[geo_path].region_gdf, plot_df),
                                src |-> cache[geo_path].src]) @@ page
          /\ geo_log' = geo_log
          /\ pc' = "table"
       \/ /\ page' = page
          /\ geo_log' = geo_log \cup {"render_failed"}
          /\ pc' = MapHandler
    /\ UNCHANGED <<frameVars, aggVars, observed_codes, mapping_used, files, geo_path,
                   gdf, coverage, cache, dataset, selected_bands>>

\* lines 587-588: the warning in place of the map
MapExcept ==
    /\ pc = "map_except"
    /\ page' = ("map" :> [ok |-> FALSE, rows |-> {}, src |-> Absent]) @@ page
    /\ pc' = "table"
    /\ UNCHANGED <<frameVars, aggVars, observed_codes, geoVars, dataset, selected_bands>>

\* lines 590-591
Table ==
    /\ pc = "table"
    /\ page' = ("table" :> plot_df) @@ page
    /\ pc' = "gender"
    /\ UNCHANGED <<frameVars, aggVars, observed_codes, geoVars, dataset, selected_bands>>

\* lines 39-43 on a cell of the 성별 column: "M" is 남, "F" is 여
map_sex(k, dtype) ==
    LET s == RemoveAll(NumCellStr(k.sex, dtype), <<" ">>)
    IN  IF s = <<"1">> THEN "M" ELSE IF s = <<"2">> THEN "F" ELSE NULL

\* the rows with a sex label, by label (line 600)
SexCount(d, dtype, lab) == SumOver({k \in DOMAIN d : map_sex(k, dtype) = lab}, d)

\* line 601 before .round(1): the shares of 남 and 여 in percent, 0 for a
\* label that does not occur
GenderPctExact(d, dtype, lab) ==
    IF SexCount(d, dtype, lab) = 0 THEN Flt(0)
    ELSE FMul(FDiv(Flt(SexCount(d, dtype, lab)),
                   Flt(SexCount(d, dtype, "M") + SexCount(d, dtype, "F"))), 100)

\* lines 617-624: the share of each sex within each region, in percent
Cross(d, m, dtype) ==
    [c \in {<<m[k], map_sex(k, dtype)>> : k \in {x \in Present(d) : map_sex(x, dtype) # NULL}} |->
        FMul(FDiv(Flt(SumOver({k \in DOMAIN d : m[k] = c[1] /\ map_sex(k, dtype) = c[2]}, d)),
                  Flt(SumOver({k \in DOMAIN d : m[k] = c[1] /\ map_sex(k, dtype) # NULL}, d))), 100)]

\* lines 596-642
Gender ==
    /\ pc = "gender"
    /\ \E gm \in Round1Outcomes(GenderPctExact(df, columns["sex"], "M")),
          gf \in Round1Outcomes(GenderPctExact(df, columns["sex"], "F")) :
          page' = ("gender" :> <<[sex |-> "M", value |-> gm], [sex |-> "F", value |-> gf]>>)
                  @@ ("cross" :> Cross(df, labels, columns["sex"])) @@ page
    /\ pc' = "idle"
    /\ UNCHANGED <<frameVars, aggVars, observed_codes, geoVars, dataset, selected_bands>>

\* the boundary files a path of SpecApp can hold
AppFileList ==
    << [features |-> {1, 2}, crs |-> "EPSG:4326", frame |-> "lonlat", cols |-> BothCols],
       [features |-> {1, 3}, crs |-> "EPSG:4326", frame |-> "lonlat", cols |-> BothCols],
       [features |-> {2, 4}, crs |-> "EPSG:5179", frame |-> "projected", cols |-> BothCols],
       [features |-> {5}, crs |-> "none", frame |-> "lonlat", cols |-> {"CTP_KOR_NM"}] >>

AppFiles == {AppFileList[i] : i \in 1..NAppFiles} \cup {Absent}

\* the boundary file at a path is replaced, removed or created while the
\* page is idle
FileChange ==
    /\ pc = "idle"
    /\ \E p \in DOMAIN files, f \in AppFiles :
          /\ f # files[p]
          /\ files' = [files EXCEPT ![p] = f]
    /\ UNCHANGED <<frameVars, aggVars, observed_codes, mapping_used, geo_path, gdf,
                   coverage, cache, geo_log, uiVars, pc>>

-----------------------------------------------------------------------------
(* SpecApp: the page over reruns and boundary file changes                 *)

\* the record kinds of the patient table: region cell, sex cell, age cell
AppKinds ==
    { [loc |-> <<"1">>, sex |-> <<"1">>, age |-> <<"5">>],
      [loc |-> <<"5">>, sex |-> <<"2">>, age |-> <<"1", "5">>],
      [loc |-> <<>>, sex |-> <<"1">>, age |-> <<"1", "5">>] }

InitApp ==
    /\ dataset \in [AppKinds -> 0..MaxAppCount]
    /\ selected_bands = {}
    /\ page = <<>>
    /\ files \in [{GEO_CANDIDATES[i] : i \in 1..Len(GEO_CANDIDATES)} -> AppFiles]
    /\ geo_path = None
    /\ mapping_used = None
    /\ gdf = None
    /\ coverage = None
    /\ cache = <<>>
    /\ geo_log = {}
    /\ pc = "idle"
    /\ IdleFrame
    /\ IdleAgg
    /\ IdlePick

NextApp ==
    \/ Rerun \/ Resolve \/ FilterValid \/ Aggregate \/ BarChart \/ MapCall
    \/ GeoRead \/ GeoCrs \/ GeoValid \/ GeoExplode \/ GeoTag \/ GeoCoverage \/ GeoDissolve
    \/ MapMerge \/ MapExcept \/ Table \/ Gender \/ FileChange

SpecApp == InitApp /\ [][NextApp]_vars

-----------------------------------------------------------------------------
(* Properties of the standardized aggregation (SpecAgg)                    *)

\* the number of rows of the batch that the resolver tagged r
TagCount(r) == SumOver({k \in DOMAIN batch : labels[k] = r}, batch)

\* 12 / sub_region_count for the divisors {2, 2, 4, 3, 6} of the five regions
ShareWeight == (R1 :> 6) @@ (R2 :> 6) @@ (R3 :> 3) @@ (R4 :> 4) @@ (R5 :> 2)

\* count_r / divisor_r and the sum of the five, both times 12
ShareNum(r) == TagCount(r) * ShareWeight[r]

ShareDen == SumOver(RegionSet, [r \in RegionSet |-> ShareNum(r)])

Abs(x) == IF x < 0 THEN -x ELSE x

\* v, in hundredths, is a nearest hundredth to 100 * ShareNum(r) / ShareDen
NearestHundredth(v, r) == 2 * Abs(v * ShareDen - 10000 * ShareNum(r)) <= ShareDen

\* the batch of scenario 1: region indicators [1,1,2,3,4,5,5,5,2,1]
Scenario1Batch ==
    /\ batch[[loc |-> <<"1">>]] = 3
    /\ batch[[loc |-> <<"2">>]] = 2
    /\ batch[[loc |-> <<"3">>]] = 1
    /\ batch[[loc |-> <<"4">>]] = 1
    /\ batch[[loc |-> <<"5">>]] = 3
    /\ batch[[loc |-> <<"4", "1">>]] = 0
    /\ batch[[loc |-> <<>>]] = 0

Scenario1Pct ==
    (R1 :> <<4186, 100>>) @@ (R2 :> <<2791, 100>>) @@ (R3 :> <<698, 100>>)
    @@ (R4 :> <<930, 100>>) @@ (R5 :> <<1395, 100>>)

\* C1: once the region table is computed for a batch with at least one
\* tagged record, the percentage of every region r is 100 * (count_r /
\* divisor_r) / (sum over the five regions of count_k / divisor_k) rounded to
\* two places (a nearest hundredth), with divisors {2, 2, 4, 3, 6}; the
\* batch [1,1,2,3,4,5,5,5,2,1] gives 41.86, 27.91, 6.98, 9.30, 13.95.
C1_StandardizedPercentage ==
    pc = "bar" =>
        /\ ShareDen > 0 =>
              \A r \in RegionSet :
                  /\ r \in DOMAIN std_pct
                  /\ std_pct[r][2] = 100
                  /\ NearestHundredth(std_pct[r][1], r)
        /\ Scenario1Batch => std_pct = Scenario1Pct

C1_Witness == pc = "bar" /\ Scenario1Batch /\ std_pct = Scenario1Pct

\* the five percentages added up, in hundredths
PctTotal == SumOver(RegionSet, [r \in RegionSet |-> std_pct[r][1]])

\* C2: for a batch with at least one record of a canonical region the five
\* percentages add up to 100.00 within 0.05.
C2_SumWithinTolerance ==
    (pc = "bar" /\ ShareDen > 0) =>
        /\ DOMAIN std_pct = RegionSet
        /\ \A r \in RegionSet : std_pct[r][2] = 100
        /\ Abs(PctTotal - 10000) <= 5

\* a batch whose rounded percentages do not add up to exactly 100.00
C2_Witness ==
    /\ pc = "bar"
    /\ ShareDen > 0
    /\ DOMAIN std_pct = RegionSet
    /\ PctTotal # 10000

\* C3: for a batch with no record of a canonical region every one of the
\* five percentages is exactly 0 and none is NaN.
C3_EmptyBatchAllZero ==
    (pc = "bar" /\ ShareDen = 0) =>
        \A r \in RegionSet : r \in DOMAIN std_pct /\ std_pct[r] = <<0, 100>>

\* what the script computes for such a batch: 0/0, NaN in all five rows
C3_EmptyBatchIsNaN ==
    (pc = "bar" /\ ShareDen = 0) =>
        \A r \in RegionSet : r \in DOMAIN std_pct /\ IsNaN(std_pct[r])

\* C4: the region table has exactly 5 rows, one for each canonical region;
\* a region without a record is a row with count 0 (and, in a batch that is
\* not empty, percentage 0), never a missing row.
C4_FiveRows ==
    pc = "bar" =>
        /\ Len(plot_df) = 5
        /\ \A r \in RegionSet : Cardinality({i \in 1..Len(plot_df) : plot_df[i].region = r}) = 1
        /\ DOMAIN raw_counts = RegionSet
        /\ \A r \in RegionSet :
              /\ raw_counts[r] = TagCount(r)
              /\ \A i \in 1..Len(plot_df) :
                    (plot_df[i].region = r /\ TagCount(r) = 0 /\ ShareDen > 0)
                        => plot_df[i].value = <<0, 100>>

\* a batch with records of some region and none of another
C4_Witness ==
    /\ pc = "bar"
    /\ Len(plot_df) = 5
    /\ \E r1, r2 \in RegionSet :
          /\ TagCount(r1) = 0 /\ TagCount(r2) > 0
          /\ \E i \in 1..5 : plot_df[i].region = r1 /\ plot_df[i].value = <<0, 100>>

\* the batch without its null-region rows
BatchWithoutNull == [k \in DOMAIN batch |-> IF labels[k] = NULL THEN 0 ELSE batch[k]]

\* C5: a record whose region resolves to null is dropped from the analysis
\* population and adds to no count and to no denominator: the population is
\* the batch without its null-region rows, and counts, standardized counts
\* and percentages are those of that smaller batch.
C5_NullRegionExcluded ==
    pc \in {"aggregate", "bar"} =>
        /\ df = BatchWithoutNull
        /\ pc = "bar" =>
              /\ raw_counts = RawCounts(BatchWithoutNull, labels)
              /\ SumOver(RegionSet, raw_counts) = NRows(BatchWithoutNull)
              /\ std_counts = StdCounts(raw_counts)
              /\ \E up \in SUBSET RegionSet :
                    std_pct = RoundSeries(StdPctExact(StdCounts(RawCounts(BatchWithoutNull, labels))), up)

\* scenario 3: rows with an empty region cell next to rows that resolve
C5_Witness ==
    /\ pc = "bar"
    /\ batch[[loc |-> <<>>]] > 0
    /\ labels[[loc |-> <<>>]] = NULL
    /\ df[[loc |-> <<>>]] = 0
    /\ ShareDen > 0

-----------------------------------------------------------------------------
(* Properties of the scheme selection (SpecPick)                           *)

\* the observed codes that are keys of a table
Hits(table) == {c \in observed_codes : \E key \in DOMAIN table : key = c}

\* a code set with 10 hits in table A and 3 in table B
TenThreeCodes == {PickCodeList[i] : i \in 1..10}

\* C6: table A is picked exactly when more observed codes are keys of A than
\* of B, table B otherwise (ties, and no hit at all, go to B); a code set
\* with 10 hits in A and 3 in B picks A.
C6_SchemeSelection ==
    pc = "picked" =>
        /\ Cardinality(Hits(CODE_TO_REGION_A)) > Cardinality(Hits(CODE_TO_REGION_B))
              => mapping_used = CODE_TO_REGION_A
        /\ Cardinality(Hits(CODE_TO_REGION_A)) <= Cardinality(Hits(CODE_TO_REGION_B))
              => mapping_used = CODE_TO_REGION_B
        /\ observed_codes = TenThreeCodes => mapping_used = CODE_TO_REGION_A

C6_Witness ==
    /\ pc = "picked"
    /\ observed_codes = TenThreeCodes
    /\ Cardinality(Hits(CODE_TO_REGION_A)) = 10
    /\ Cardinality(Hits(CODE_TO_REGION_B)) = 3
    /\ mapping_used = CODE_TO_REGION_A

-----------------------------------------------------------------------------
(* Properties of the boundary builder (SpecGeo)                            *)

\* the function has returned: its value is in the cache
GeoReturned == pc = "map_merge" /\ geo_path \in DOMAIN cache

\* the features of the file that the returned value's rows tag with reg
TaggedFeatures(reg) == {r.fid : r \in {x \in cache[geo_path].tagged : x.region = reg}}

\* the boundaries returned for reg
BoundariesOf(reg) == {b \in cache[geo_path].region_gdf : b.region = reg}

\* the file of scenario 2: the features with codes 11 and 28, both columns
Scenario2File ==
    /\ files[geo_path] # Absent
    /\ files[geo_path].features = {1, 2}
    /\ files[geo_path].cols = BothCols

\* C7: the value returned has exactly one boundary for each canonical region
\* that tags a feature and none for any other; the boundary's geometry is
\* the union of the geometries of the features tagged with the region, so
\* an untagged feature is part of no boundary; the features with codes 11
\* and 28 end up, under scheme B, in one Seoul/Incheon boundary.
C7_OneBoundaryPerRegion ==
    GeoReturned =>
        /\ \A b \in cache[geo_path].region_gdf : b.region \in RegionSet
        /\ \A reg \in RegionSet :
              /\ Cardinality(BoundariesOf(reg)) = IF TaggedFeatures(reg) = {} THEN 0 ELSE 1
              /\ \A b \in BoundariesOf(reg) :
                    b.geometry = UNION {Cover(GeoFeatureList[f].geom) : f \in TaggedFeatures(reg)}
        /\ \A f \in files[geo_path].features :
              (\A reg \in RegionSet : f \notin TaggedFeatures(reg)) =>
                  \A b \in cache[geo_path].region_gdf :
                      b.geometry \cap Cover(GeoFeatureList[f].geom) = {}
        /\ Scenario2File =>
              /\ cache[geo_path].mapping_used = CODE_TO_REGION_B
              /\ cache[geo_path].region_gdf = {[region |-> R1, geometry |-> {1, 2, 3}]}

C7_Witness ==
    /\ GeoReturned
    /\ Scenario2File
    /\ cache[geo_path].mapping_used = CODE_TO_REGION_B
    /\ cache[geo_path].region_gdf = {[region |-> R1, geometry |-> {1, 2, 3}]}

\* the call has ended: the function returned or an exception left it
GeoEnded == pc \in {"map_merge", "map_except"}

\* C8: if the boundary file cannot be read or cannot be reprojected, the
\* call ends with an error and returns neither boundaries nor a coverage
\* report.
C8_FailsAsAWhole ==
    (GeoEnded /\ geo_log \cap {"read_failed", "reproject_failed"} # {}) =>
        /\ pc = "map_except"
        /\ geo_path \notin DOMAIN cache

\* the half of C8 that the function keeps: a file that cannot be read
C8_ReadFailureFails ==
    (GeoEnded /\ "read_failed" \in geo_log) =>
        /\ pc = "map_except"
        /\ geo_path \notin DOMAIN cache

\* what the function does after a failed reprojection: it returns boundaries
\* in the coordinates the file came with
C8_ReturnsUnreprojected ==
    /\ GeoReturned
    /\ "reproject_failed" \in geo_log
    /\ cache[geo_path].frame = "projected"
    /\ cache[geo_path].region_gdf # {}

-----------------------------------------------------------------------------
(* Properties of the page (SpecApp)                                        *)

\* the run's map path failed: the build or the drawing raised
MapFailures == {"read_failed", "buffer_failed", "key_error", "render_failed"}

MapPathFailed == geo_log \cap MapFailures # {}

\* the script has come to its end, or an exception has ended it
RunEnded == pc \in {"idle", "abort"} /\ DOMAIN page # {}

\* the region table the selected rows give: a rounding of the standardized
\* shares of the rows that have a canonical region
IsRegionTable(t) ==
    \E up \in SUBSET RegionSet :
        t = series_to_df(RoundSeries(StdPctExact(StdCounts(RawCounts(batch, labels))), up))

\* the sex table the selected rows give
IsSexTable(t) ==
    /\ Len(t) = 2
    /\ t[1].sex = "M" /\ t[1].value \in Round1Outcomes(GenderPctExact(df, columns["sex"], "M"))
    /\ t[2].sex = "F" /\ t[2].value \in Round1Outcomes(GenderPctExact(df, columns["sex"], "F"))

\* C9: in a run whose map path fails the region bar chart, the region table
\* and the gender analysis are on the page all the same, with the values the
\* selected rows give, which do not depend on what the map path did.
C9_AggregatesSurviveMapFailure ==
    (RunEnded /\ MapPathFailed) =>
        /\ {"bar", "table", "gender", "cross"} \subseteq DOMAIN page
        /\ labels = robust_region_from_records(columns, batch)
        /\ IsRegionTable(page["bar"])
        /\ page["table"] = page["bar"]
        /\ IsSexTable(page["gender"])
        /\ page["cross"] = Cross(df, labels, columns["sex"])

\* a run whose build failed, with rows of both sexes on the page
C9_Witness ==
    /\ RunEnded
    /\ "read_failed" \in geo_log
    /\ {"bar", "table", "gender", "map"} \subseteq DOMAIN page
    /\ ~page["map"].ok
    /\ page["gender"][1].value = <<500, 10>>
    /\ \E i \in 1..Len(page["table"]) : page["table"][i].value = <<7500, 100>>

\* the boundaries a file gives when every step of the build succeeds
BoundariesOfFile(f) ==
    Dissolve({[region |-> FinalRegion(MapDict(pick_region_mapping({first2digits(GeoCellStr(GeoFeatureList[x].code)) : x \in f.features}),
                                              first2digits(GeoCellStr(GeoFeatureList[i].code))),
                                      NameRegion(GeoFeatureList[i])),
               geom |-> GeoFeatureList[i].geom] : i \in f.features})

\* C10: the map on the page is drawn from the boundaries of the file that is
\* at the boundary path now: a rerun after a filter change reuses the cached
\* value, and a change of the file invalidates it.
C10_ServedBoundariesAreCurrent ==
    (pc = "table" /\ "map" \in DOMAIN page /\ page["map"].ok) =>
        /\ files[geo_path] # Absent
        /\ page["map"].src = files[geo_path]
        /\ {[region |-> b.region, geometry |-> b.geometry] : b \in page["map"].rows}
              = BoundariesOfFile(files[geo_path])

\* the half of C10 that the cache keeps: a value cached for the path is
\* never built again, whatever the filter
C10_CachedIsNotRebuilt ==
    [][(pc = "map" /\ geo_path \in DOMAIN cache) => pc' = "map_merge"]_vars

\* once cached for a path, a value is never dropped or replaced
C10_NeverInvalidated ==
    [][\A p \in DOMAIN cache : p \in DOMAIN cache' /\ cache'[p] = cache[p]]_vars

-----------------------------------------------------------------------------
(* Properties of the resolver's direct step (SpecAgg)                      *)

\* line 468 has run: the labels are assigned
Resolved == pc \in {"filter", "aggregate", "bar"}

\* the rows of the batch whose region-indicator cell is not null
LocNonNull == SumOver({k \in DOMAIN batch : k.loc # <<>>}, batch)

\* the rows of the batch whose cell maps through the 1..5 table
LocDirect == SumOver({k \in DOMAIN batch : Step1Map(k) # NULL}, batch)

\* the labels of the direct step
DirectLabels == [k \in DOMAIN batch |-> Step1Map(k)]

\* the batch of the example: 7 cells in 1..5, 3 null cells
SevenPlusThree ==
    /\ batch[[loc |-> <<"1">>]] = 3
    /\ batch[[loc |-> <<"2">>]] = 3
    /\ batch[[loc |-> <<"3">>]] = 1
    /\ batch[[loc |-> <<"4">>]] = 0
    /\ batch[[loc |-> <<"5">>]] = 0
    /\ batch[[loc |-> <<"4", "1">>]] = 0
    /\ batch[[loc |-> <<>>]] = 3

\* C11: the direct step is accepted exactly when the cells that map through
\* the 1..5 table are at least 80% of the non-null cells of the field, null
\* cells not counting; when it is accepted the labels are the direct
\* regions (7 cells in 1..5 plus 3 nulls: accepted, the 7 rows labelled).
C11_AcceptedOnNonNullShare ==
    Resolved =>
        /\ (LocNonNull > 0 /\ 10 * LocDirect >= 8 * LocNonNull) <=> Step1Accepts(columns, batch)
        /\ (LocNonNull > 0 /\ 10 * LocDirect >= 8 * LocNonNull) => labels = DirectLabels
        /\ SevenPlusThree => labels = DirectLabels

\* what line 132 computes: the share is taken over all rows, null cells
\* included, and the direct labels are returned exactly when it is 80%
C11_AcceptedOnShareOfAllRows ==
    Resolved =>
        /\ (LocNonNull > 0 /\ 10 * LocDirect >= 8 * NRows(batch)) => labels = DirectLabels
        /\ (LocNonNull > 0 /\ 10 * LocDirect < 8 * NRows(batch) /\ LocDirect > 0)
              => labels # DirectLabels

\* the example batch: the direct step is rejected and the 7 rows stay
\* without a region
C11_SevenPlusThreeRejected ==
    /\ Resolved
    /\ SevenPlusThree
    /\ \A k \in DOMAIN batch : labels[k] = NULL

-----------------------------------------------------------------------------
(* SpecName: one pass of the script over every batch of a table whose      *)
(* region comes from the province-name column 시도 (step 3 of the resolver) *)

\* the most rows of one kind in a batch of SpecName
MaxNameCount == 2

\* the cells of the name column: a key of the direct table, its bare name,
\* another key of the direct table, names with a suffix or a blank that only
\* the normalized table knows, a name no table knows, an empty cell
NameCells ==
    { SEOUL \o TEUKBYEOLSI,
      SEOUL,
      GYEONGGI \o DO,
      BUSAN \o SI,
      INCHEON \o <<" ">> \o GWANGYEOKSI,
      <<"x">>,
      <<>> }

\* the table has the name column alone, or next to it a region-indicator
\* column that holds neither 1..5 nor a code of table A or B
NameKinds(withLoc) ==
    IF withLoc THEN {[loc |-> <<"9", "9">>, sido |-> c] : c \in NameCells}
    ELSE {[sido |-> c] : c \in NameCells}

InitName ==
    /\ \E withLoc \in BOOLEAN :
          /\ columns = IF withLoc THEN [c \in {"loc", "sido"} |->
                                           IF c = "loc" THEN "int64" ELSE "object"]
                       ELSE [c \in {"sido"} |-> "object"]
          /\ df \in [NameKinds(withLoc) -> 0..MaxNameCount]
    /\ batch = df
    /\ labels = NoSeries
    /\ raw_counts = NoSeries
    /\ std_counts = NoSeries
    /\ std_pct = NoSeries
    /\ plot_df = NoSeries
    /\ pc = "resolve"
    /\ IdlePick
    /\ IdleGeo
    /\ IdleUi

NextName == Resolve \/ FilterValid \/ Aggregate

SpecName == InitName /\ [][NextName]_vars

-----------------------------------------------------------------------------
(* Properties of the resolver's name step (SpecName)                       *)

\* the region of one record by name: the direct table, and the normalized
\* table when the raw name is no key of the direct table
NameRegionOfRecord(k) == IF Step3Direct(k) # NULL THEN Step3Direct(k) ELSE Step3Norm(k)

\* some record of the batch has a key of the direct table as its name
SomeDirectMatch == \E k \in Present(batch) : Step3Direct(k) # NULL

\* C12: in the name step every record whose raw name is no key of the
\* direct table is normalized and looked up in the normalized table, so a
\* record is left without a region only if both lookups fail for it,
\* whatever the other records of the batch are.
C12_EveryRecordNormalized ==
    Resolved => \A k \in Present(batch) : labels[k] = NameRegionOfRecord(k)

\* what lines 149-153 do: the direct table alone for the whole batch once
\* any record matches it, the normalized table for the whole batch otherwise
C12_NormalizedOnlyWithoutDirectMatch ==
    Resolved =>
        /\ SomeDirectMatch => \A k \in DOMAIN batch : labels[k] = Step3Direct(k)
        /\ ~SomeDirectMatch => \A k \in DOMAIN batch : labels[k] = Step3Norm(k)

\* a batch with a record named by a key of the direct table and a record
\* with the bare name: the second is left without a region although the
\* normalized table knows it
C12_BareNameLeftUnmapped ==
    /\ Resolved
    /\ DOMAIN columns = {"sido"}
    /\ batch[[sido |-> SEOUL \o TEUKBYEOLSI]] > 0
    /\ batch[[sido |-> SEOUL]] > 0
    /\ Step3Norm([sido |-> SEOUL]) = R1
    /\ labels[[sido |-> SEOUL]] = NULL

-----------------------------------------------------------------------------
(* Properties of the tagging of boundary features (SpecGeo)                *)

\* lines 188-205 have run: the rows of gdf carry their regions
GeoTagged == pc \in {"geo_coverage", "geo_dissolve"}

\* the region the claim gives a row: by the code when the two-digit code is
\* a key of the selected table, else by the name (direct table, then
\* normalized table), else none
ClaimedRegion(r) ==
    LET code2 == first2digits(GeoCellStr(r.code))
        nm == GeoCellStr(r.name)
    IN  IF "CTPRVN_CD" \in gdf.cols /\ code2 \in DOMAIN mapping_used
        THEN mapping_used[code2]
        ELSE IF "CTP_KOR_NM" \in gdf.cols /\ nm \in DOMAIN NAME_TO_REGION
        THEN NAME_TO_REGION[nm]
        ELSE IF "CTP_KOR_NM" \in gdf.cols /\ norm_nm(nm) \in DOMAIN NORMNAME_TO_REGION
        THEN NORMNAME_TO_REGION[norm_nm(nm)]
        ELSE NULL

\* C13: every feature's region is the selected code table's when its
\* two-digit code is a key of that table, else the name lookup's (direct
\* table, then normalized table) when the name matches, else the feature is
\* untagged; a region by name never replaces a region by code.
C13_CodeThenName ==
    GeoTagged =>
        /\ "CTPRVN_CD" \in gdf.cols => mapping_used \in {CODE_TO_REGION_A, CODE_TO_REGION_B}
        /\ \A r \in gdf.rows :
              /\ r.region = ClaimedRegion(r)
              /\ r.region_code # NULL => r.region = r.region_code

\* a file in which a feature's code and name give different regions (code
\* 31 is Gyeonggi in table A, the name is Ulsan) next to a feature tagged
\* by its name alone
C13_Witness ==
    /\ GeoTagged
    /\ \E r \in gdf.rows :
          /\ r.region_code # NULL /\ r.region_name # NULL
          /\ r.region_code # r.region_name
          /\ r.region = r.region_code
    /\ \E r \in gdf.rows :
          /\ r.region_code = NULL /\ r.region_name # NULL
          /\ r.region = r.region_name

-----------------------------------------------------------------------------
(* Properties of the geometry repair (SpecGeo)                             *)

\* the repair of lines 175-179 failed: make_valid raised and so did the
\* buffer(0) of the except clause
RepairFailed == "buffer_failed" \in geo_log

\* the features of the file whose geometry is invalid as stored
InvalidFeatures == {f \in files[geo_path].features : ~GeoFeatureList[f].valid}

\* C14: when make_valid and the buffer-based fallback both fail, the build
\* still completes and returns boundaries; only the feature that could not
\* be repaired is left out of them.
C14_OnlyAffectedFeatureExcluded ==
    (GeoEnded /\ RepairFailed) =>
        /\ GeoReturned
        /\ \A b \in cache[geo_path].region_gdf :
              b.geometry \cap UNION {Cover(GeoFeatureList[f].geom) : f \in InvalidFeatures} = {}
        /\ \A f \in files[geo_path].features \ InvalidFeatures :
              \A reg \in RegionSet :
                  f \in TaggedFeatures(reg) =>
                      \E b \in BoundariesOf(reg) : Cover(GeoFeatureList[f].geom) \subseteq b.geometry

\* what lines 175-179 do: the buffer(0) of the except clause is not guarded,
\* its exception leaves the function and nothing is returned
C14_RepairFailureAborts ==
    (GeoEnded /\ RepairFailed) =>
        /\ pc = "map_except"
        /\ geo_path \notin DOMAIN cache
        /\ gdf = None

\* a file with one invalid feature and valid ones whose build was aborted
C14_ValidFeaturesLost ==
    /\ GeoEnded
    /\ RepairFailed
    /\ files[geo_path] # Absent
    /\ files[geo_path].cols = BothCols
    /\ InvalidFeatures = {3}
    /\ {1, 2} \subseteq files[geo_path].features
    /\ pc = "map_except"
    /\ geo_path \notin DOMAIN cache

=============================================================================
